---- MODULE Spec2Model ----
(***************************************************************************)
(* The session/room registry and message relay of ws_chat                  *)
(* (src/src/server.ts, the variant with safeCall / wrapInErrorHandler,     *)
(* lines 201-445).                                                         *)
(*                                                                         *)
(* The server keeps two module-level maps, `sockets` (uuid -> socket) and  *)
(* `roomClientKeys` (room -> (uuid -> key)).  Bun calls the websocket      *)
(* handlers open / close / message one at a time; every handler runs to    *)
(* completion, so one handler invocation is one step of the model.         *)
(***************************************************************************)
EXTENDS Integers, Sequences, FiniteSets, TLC

\* ------------------------------------------------------------------ bounds
\* number of connections ever upgraded (each gets a fresh uuid)
MaxConns == 3
\* number of entries in the `messages` object of one send_message frame
MaxEntries == 2
\* number of send_message frames sent, by all connections together, where
\* every frame sent is kept
MaxSent == 3

\* --------------------------------------------------------- program constants
MaxUsernameLength == 16
MaxRoomLength == 32
TagLength == 16
MaxMessageLength == 256

\* The k-th uuid produced by crypto.randomUUID() is called k.
Conns == 1..MaxConns

VARIABLES
    sockets,          \* Connection Registry: the uuids that are keys of `sockets`
    roomClientKeys,   \* Room Registry: room name -> (uuid -> key)
    subscribed,       \* the sockets subscribed to the topic of their room
    status,           \* transport state of each connection
    ctx,              \* ws.data of each connection: uuid, username, room
    out,              \* the frames sent by the last handler, in call order
    last,             \* the last event handled and its input
    firstSent,        \* history: first key a connection sent in a send_exchange
    history           \* history: the frames each connection has been sent

vars ==
    <<sockets, roomClientKeys, subscribed, status, ctx, out, last, firstSent,
      history>>

\* ------------------------------------------------------------- JSON values
\* A JSON value is tagged with its JavaScript type.
Undefined == [t |-> "undefined"]
Null == [t |-> "null"]
Str(s) == [t |-> "string", v |-> s]
Num(n) == [t |-> "number", v |-> n]
Obj(fields) == [t |-> "object", v |-> fields]

\* typeof null is "object" in JavaScript
typeof(x) == IF x.t = "null" THEN "object" ELSE x.t

\* A base64 text is described by its shape: `chars` characters of the base64
\* alphabet followed by `pad` characters '=', `bad` when some character is
\* outside the alphabet.
B64(n, p) == [chars |-> n, pad |-> p, bad |-> FALSE]
B64Bad(n, p) == [chars |-> n, pad |-> p, bad |-> TRUE]

\* atob: forgiving-base64 decode.  With a length that is a multiple of 4 up to
\* two trailing '=' are dropped; then a length of 1 modulo 4 or any character
\* outside the alphabet (a remaining '=' included) is an InvalidCharacterError;
\* otherwise every 4 characters give 3 bytes and a rest of 2 or 3 characters
\* gives 1 or 2 bytes.
atob(s) ==
    LET total == s.chars + s.pad
        rest == IF total % 4 = 0
                THEN (IF s.pad > 2 THEN s.pad - 2 ELSE 0)
                ELSE s.pad
        len == s.chars + rest
    IN  IF s.bad \/ rest > 0 \/ len % 4 = 1
        THEN [ok |-> FALSE, length |-> 0]
        ELSE [ok |-> TRUE, length |-> (s.chars * 6) \div 8]

\* ---------------------------------------------------------------- Map helpers
NoKey == "<none>"
EmptyMap == [x \in {} |-> NoKey]
MapSet(m, k, v) == [x \in (DOMAIN m) \cup {k} |-> IF x = k THEN v ELSE m[x]]
MapDelete(m, k) == [x \in (DOMAIN m) \ {k} |-> m[x]]

\* ------------------------------------------------- the server state in a step
\* The handlers are state transformers on a record of the server state; `threw`
\* is set when an exception is propagating (the rest of the handler is skipped).
Server ==
    [sockets |-> sockets, roomClientKeys |-> roomClientKeys,
     subscribed |-> subscribed, status |-> status,
     out |-> << >>, threw |-> FALSE]

\* server.publish to every open socket subscribed to any room
sendToRoom_everyone(s, room, data) ==
    [s EXCEPT !.out = Append(@,
        [to |-> {c \in s.subscribed : s.status[c] = "open"},
         frame |-> data])]

\* server.publish(room, ...): one frame to every open socket subscribed to room
sendToRoom(s, room, data) ==
    [s EXCEPT !.out = Append(@,
        [to |-> {c \in s.subscribed : ctx[c].room = room /\ s.status[c] = "open"},
         frame |-> data])]

\* client.send(...): one frame to that socket, dropped when it is not open
sendToClient(s, client, data) ==
    [s EXCEPT !.out = Append(@,
        [to |-> IF s.status[client] = "open" THEN {client} ELSE {},
         frame |-> data])]

\* a handler called without try / catch: the exception ends the process and
\* with it every socket
wrapInErrorHandler_crash(s) ==
    IF s.threw
    THEN [s EXCEPT !.status =
            [c \in Conns |-> IF @[c] \in {"new", "closed"} THEN @[c] ELSE "closed"]]
    ELSE s

\* try { callback } catch (error) { logError(error) }: the exception stops
\* here, whatever the handler did before it was thrown stays done.
wrapInErrorHandler(s) == [s EXCEPT !.threw = FALSE]

\* handleOpen sending a keyinit without keys
handleOpen_emptyKeyinit(s, ws) ==
    LET room == ctx[ws].room
        s1 == [s EXCEPT !.subscribed = @ \cup {ws}, !.sockets = @ \cup {ws}]
        s2 == IF room \notin DOMAIN s1.roomClientKeys
              THEN [s1 EXCEPT !.roomClientKeys = MapSet(@, room, EmptyMap)]
              ELSE s1
        s3 == sendToRoom(s2, room,
                 [type |-> "announcement",
                  content |-> ctx[ws].username \o " has joined the room!"])
    IN  sendToClient(s3, ws, [type |-> "keyinit", keys |-> EmptyMap])

\* handleOpen subscribing after the announcement
handleOpen_subscribeLast(s, ws) ==
    LET room == ctx[ws].room
        s1 == [s EXCEPT !.sockets = @ \cup {ws}]
        s2 == IF room \notin DOMAIN s1.roomClientKeys
              THEN [s1 EXCEPT !.roomClientKeys = MapSet(@, room, EmptyMap)]
              ELSE s1
        s3 == sendToRoom(s2, room,
                 [type |-> "announcement",
                  content |-> ctx[ws].username \o " has joined the room!"])
        s4 == sendToClient(s3, ws,
                 [type |-> "keyinit", keys |-> s3.roomClientKeys[room]])
    IN  [s4 EXCEPT !.subscribed = @ \cup {ws}]

\* handleOpen recording a key for the joining connection
handleOpen_recordsJoiner(s, ws) ==
    LET room == ctx[ws].room
        s1 == [s EXCEPT !.subscribed = @ \cup {ws}, !.sockets = @ \cup {ws}]
        keys == IF room \in DOMAIN s1.roomClientKeys
                THEN s1.roomClientKeys[room] ELSE EmptyMap
        s2 == [s1 EXCEPT !.roomClientKeys = MapSet(@, room, MapSet(keys, ws, ""))]
        s3 == sendToRoom(s2, room,
                 [type |-> "announcement",
                  content |-> ctx[ws].username \o " has joined the room!"])
    IN  sendToClient(s3, ws,
            [type |-> "keyinit", keys |-> s3.roomClientKeys[room]])

\* handleOpen setting a new key map for the room without the `has` test
handleOpen_resetRoom(s, ws) ==
    LET room == ctx[ws].room
        s1 == [s EXCEPT !.subscribed = @ \cup {ws}, !.sockets = @ \cup {ws}]
        s2 == [s1 EXCEPT !.roomClientKeys = MapSet(@, room, EmptyMap)]
        s3 == sendToRoom(s2, room,
                 [type |-> "announcement",
                  content |-> ctx[ws].username \o " has joined the room!"])
    IN  sendToClient(s3, ws,
            [type |-> "keyinit", keys |-> s3.roomClientKeys[room]])

handleOpen(s, ws) ==
    LET room == ctx[ws].room
        s1 == [s EXCEPT !.subscribed = @ \cup {ws}, !.sockets = @ \cup {ws}]
        s2 == IF room \notin DOMAIN s1.roomClientKeys
              THEN [s1 EXCEPT !.roomClientKeys = MapSet(@, room, EmptyMap)]
              ELSE s1
        s3 == sendToRoom(s2, room,
                 [type |-> "announcement",
                  content |-> ctx[ws].username \o " has joined the room!"])
    IN  sendToClient(s3, ws,
            [type |-> "keyinit", keys |-> s3.roomClientKeys[room]])

\* handleClose without `keys.delete(uuid)`
handleClose_keepKey(s, ws) ==
    LET room == ctx[ws].room
        s1 == [s EXCEPT !.subscribed = @ \ {ws}, !.sockets = @ \ {ws}]
        s2 == IF room \in DOMAIN s1.roomClientKeys
              THEN IF Cardinality(DOMAIN s1.roomClientKeys[room]) = 0
                   THEN [s1 EXCEPT !.roomClientKeys = MapDelete(@, room)]
                   ELSE s1
              ELSE s1
    IN  sendToRoom(s2, room,
            [type |-> "announcement",
             content |-> ctx[ws].username \o " has left the room!"])

\* handleClose without `roomClientKeys.delete(room)`
handleClose_keepRoom(s, ws) ==
    LET room == ctx[ws].room
        s1 == [s EXCEPT !.subscribed = @ \ {ws}, !.sockets = @ \ {ws}]
        s2 == IF room \in DOMAIN s1.roomClientKeys
              THEN [s1 EXCEPT !.roomClientKeys =
                       MapSet(@, room, MapDelete(@[room], ws))]
              ELSE s1
    IN  sendToRoom(s2, room,
            [type |-> "announcement",
             content |-> ctx[ws].username \o " has left the room!"])

\* handleClose announcing the leave only when the room has an entry
handleClose_announceIfRoom(s, ws) ==
    LET room == ctx[ws].room
        s1 == [s EXCEPT !.subscribed = @ \ {ws}, !.sockets = @ \ {ws}]
    IN  IF room \in DOMAIN s1.roomClientKeys
        THEN LET keys == MapDelete(s1.roomClientKeys[room], ws)
                 s2 == IF Cardinality(DOMAIN keys) = 0
                       THEN [s1 EXCEPT !.roomClientKeys = MapDelete(@, room)]
                       ELSE [s1 EXCEPT !.roomClientKeys = MapSet(@, room, keys)]
             IN  sendToRoom(s2, room,
                     [type |-> "announcement",
                      content |-> ctx[ws].username \o " has left the room!"])
        ELSE s1

\* handleClose deleting the room entry whether or not keys of others remain
handleClose_deleteRoom(s, ws) ==
    LET room == ctx[ws].room
        s1 == [s EXCEPT !.subscribed = @ \ {ws}, !.sockets = @ \ {ws}]
        s2 == IF room \in DOMAIN s1.roomClientKeys
              THEN [s1 EXCEPT !.roomClientKeys = MapDelete(@, room)]
              ELSE s1
    IN  sendToRoom(s2, room,
            [type |-> "announcement",
             content |-> ctx[ws].username \o " has left the room!"])

\* handleClose without `sockets.delete(uuid)`
handleClose_keepSocket(s, ws) ==
    LET room == ctx[ws].room
        s1 == [s EXCEPT !.subscribed = @ \ {ws}]
        s2 == IF room \in DOMAIN s1.roomClientKeys
              THEN LET keys == MapDelete(s1.roomClientKeys[room], ws)
                   IN  IF Cardinality(DOMAIN keys) = 0
                       THEN [s1 EXCEPT !.roomClientKeys = MapDelete(@, room)]
                       ELSE [s1 EXCEPT !.roomClientKeys = MapSet(@, room, keys)]
              ELSE s1
    IN  sendToRoom(s2, room,
            [type |-> "announcement",
             content |-> ctx[ws].username \o " has left the room!"])

handleClose(s, ws) ==
    LET room == ctx[ws].room
        s1 == [s EXCEPT !.subscribed = @ \ {ws}, !.sockets = @ \ {ws}]
        s2 == IF room \in DOMAIN s1.roomClientKeys
              THEN LET keys == MapDelete(s1.roomClientKeys[room], ws)
                   IN  IF Cardinality(DOMAIN keys) = 0
                       THEN [s1 EXCEPT !.roomClientKeys = MapDelete(@, room)]
                       ELSE [s1 EXCEPT !.roomClientKeys = MapSet(@, room, keys)]
              ELSE s1
    IN  sendToRoom(s2, room,
            [type |-> "announcement",
             content |-> ctx[ws].username \o " has left the room!"])

\* throws when atob throws
getMessageLength(encrypted) ==
    [ok |-> atob(encrypted).ok, length |-> atob(encrypted).length - TagLength]

isMessage(message) ==
    /\ message.t # "null"
    /\ typeof(message) = "object"
    /\ typeof(message.v.content) = "string"
    /\ typeof(message.v.iv) = "string"

\* relayEntry sending to `sockets.get(targetUuid)` unchecked: a TypeError on a
\* target that is not registered
relayEntry_uncheckedTarget(s, data, entry) ==
    IF ~isMessage(entry.message) THEN s
    ELSE IF entry.target \notin s.sockets THEN [s EXCEPT !.threw = TRUE]
    ELSE LET len == getMessageLength(entry.message.v.content.v)
         IN  IF ~len.ok THEN [s EXCEPT !.threw = TRUE]
             ELSE IF len.length = 0 \/ len.length > MaxMessageLength THEN s
             ELSE sendToClient(s, entry.target,
                      [type |-> "message",
                       sender |-> data.username,
                       uuid |-> data.uuid,
                       content |-> entry.message.v.content.v,
                       iv |-> entry.message.v.iv.v])

\* relayEntry taking `sender` and `uuid` from the entry the client sent
relayEntry_payloadSender(s, data, entry) ==
    IF ~isMessage(entry.message) THEN s
    ELSE IF entry.target \notin s.sockets THEN s
    ELSE LET len == getMessageLength(entry.message.v.content.v)
         IN  IF ~len.ok THEN [s EXCEPT !.threw = TRUE]
             ELSE IF len.length = 0 \/ len.length > MaxMessageLength THEN s
             ELSE sendToClient(s, entry.target,
                      [type |-> "message",
                       sender |-> entry.message.v.sender.v,
                       uuid |-> entry.message.v.uuid.v,
                       content |-> entry.message.v.content.v,
                       iv |-> entry.message.v.iv.v])

\* relayEntry unregistering the sender of a content whose length is out of
\* bounds
relayEntry_evictSender(s, data, entry) ==
    IF ~isMessage(entry.message) THEN s
    ELSE IF entry.target \notin s.sockets THEN s
    ELSE LET len == getMessageLength(entry.message.v.content.v)
         IN  IF ~len.ok THEN [s EXCEPT !.threw = TRUE]
             ELSE IF len.length = 0 \/ len.length > MaxMessageLength
             THEN [s EXCEPT !.sockets = @ \ {data.uuid}]
             ELSE sendToClient(s, entry.target,
                      [type |-> "message",
                       sender |-> data.username,
                       uuid |-> data.uuid,
                       content |-> entry.message.v.content.v,
                       iv |-> entry.message.v.iv.v])

\* the body of the for loop of handleUserMessage for one entry of `messages`
\* (the keys of Object.entries are always strings)
relayEntry(s, data, entry) ==
    IF ~isMessage(entry.message) THEN s
    ELSE IF entry.target \notin s.sockets THEN s
    ELSE LET len == getMessageLength(entry.message.v.content.v)
         IN  IF ~len.ok THEN [s EXCEPT !.threw = TRUE]
             ELSE IF len.length = 0 \/ len.length > MaxMessageLength THEN s
             ELSE sendToClient(s, entry.target,
                      [type |-> "message",
                       sender |-> data.username,
                       uuid |-> data.uuid,
                       content |-> entry.message.v.content.v,
                       iv |-> entry.message.v.iv.v])

RECURSIVE relayFrom(_, _, _, _)
relayFrom(s, data, messages, i) ==
    IF i > Len(messages) \/ s.threw THEN s
    ELSE relayFrom(relayEntry(s, data, messages[i]), data, messages, i + 1)

\* `messages` is the sequence Object.entries(messages)
handleUserMessage(s, data, messages) == relayFrom(s, data, messages, 1)

\* handleExchange recording the key in the key map of every room
handleExchange_allRooms(s, data, key) ==
    IF data.room \notin DOMAIN s.roomClientKeys THEN s
    ELSE IF data.uuid \in DOMAIN s.roomClientKeys[data.room] THEN s
    ELSE sendToRoom(
            [s EXCEPT !.roomClientKeys =
                [r \in DOMAIN @ |-> MapSet(@[r], data.uuid, key)]],
            data.room,
            [type |-> "exchange", uuid |-> data.uuid, key |-> key])

\* handleExchange publishing the recorded key again when the uuid has a key
handleExchange_rebroadcast(s, data, key) ==
    IF data.room \notin DOMAIN s.roomClientKeys THEN s
    ELSE IF data.uuid \in DOMAIN s.roomClientKeys[data.room]
    THEN sendToRoom(s, data.room,
            [type |-> "exchange", uuid |-> data.uuid,
             key |-> s.roomClientKeys[data.room][data.uuid]])
    ELSE sendToRoom(
            [s EXCEPT !.roomClientKeys =
                MapSet(@, data.room, MapSet(@[data.room], data.uuid, key))],
            data.room,
            [type |-> "exchange", uuid |-> data.uuid, key |-> key])

\* handleExchange publishing every key received, recording the first only
handleExchange_publishEvery(s, data, key) ==
    IF data.room \notin DOMAIN s.roomClientKeys THEN s
    ELSE IF data.uuid \in DOMAIN s.roomClientKeys[data.room]
    THEN sendToRoom(s, data.room,
            [type |-> "exchange", uuid |-> data.uuid, key |-> key])
    ELSE sendToRoom(
            [s EXCEPT !.roomClientKeys =
                MapSet(@, data.room, MapSet(@[data.room], data.uuid, key))],
            data.room,
            [type |-> "exchange", uuid |-> data.uuid, key |-> key])

\* handleExchange without the `keys.has(data.uuid)` test
handleExchange_overwrite(s, data, key) ==
    IF data.room \notin DOMAIN s.roomClientKeys THEN s
    ELSE sendToRoom(
            [s EXCEPT !.roomClientKeys =
                MapSet(@, data.room, MapSet(@[data.room], data.uuid, key))],
            data.room,
            [type |-> "exchange", uuid |-> data.uuid, key |-> key])

handleExchange(s, data, key) ==
    IF data.room \notin DOMAIN s.roomClientKeys THEN s
    ELSE IF data.uuid \in DOMAIN s.roomClientKeys[data.room] THEN s
    ELSE sendToRoom(
            [s EXCEPT !.roomClientKeys =
                MapSet(@, data.room, MapSet(@[data.room], data.uuid, key))],
            data.room,
            [type |-> "exchange", uuid |-> data.uuid, key |-> key])

isMessageData(data) ==
    /\ data.t # "null"
    /\ typeof(data) = "object"
    /\ typeof(data.v.type) = "string"

\* ws.terminate(): the socket is closed at once; the transport reports the
\* close to the close handler afterwards.
terminate(s, ws) == [s EXCEPT !.status[ws] = "terminated"]

\* handleMessage returning on a frame that is no message data, the socket
\* left open
handleMessage_ignoreMalformed(s, ws, received) ==
    IF ~received.json \/ ~isMessageData(received.data) THEN s
    ELSE LET data == received.data.v
         IN  IF data.type.v = "send_message"
             THEN (IF typeof(data.messages) = "object" /\ data.messages.t # "null"
                   THEN handleUserMessage(s, ctx[ws], data.messages.v)
                   ELSE s)
             ELSE IF data.type.v = "send_exchange"
             THEN (IF typeof(data.key) = "string"
                   THEN handleExchange(s, ctx[ws], data.key.v)
                   ELSE s)
             ELSE terminate(s, ws)

\* handleMessage with a switch without default case
handleMessage_noDefault(s, ws, received) ==
    IF ~received.json \/ ~isMessageData(received.data) THEN terminate(s, ws)
    ELSE LET data == received.data.v
         IN  IF data.type.v = "send_message"
             THEN (IF typeof(data.messages) = "object" /\ data.messages.t # "null"
                   THEN handleUserMessage(s, ctx[ws], data.messages.v)
                   ELSE s)
             ELSE IF data.type.v = "send_exchange"
             THEN (IF typeof(data.key) = "string"
                   THEN handleExchange(s, ctx[ws], data.key.v)
                   ELSE s)
             ELSE s

\* `received` is [json |-> FALSE] when JSON.parse throws, else
\* [json |-> TRUE, data |-> the parsed value]
handleMessage(s, ws, received) ==
    IF ~received.json \/ ~isMessageData(received.data) THEN terminate(s, ws)
    ELSE LET data == received.data.v
         IN  IF data.type.v = "send_message"
             THEN (IF typeof(data.messages) = "object" /\ data.messages.t # "null"
                   THEN handleUserMessage(s, ctx[ws], data.messages.v)
                   ELSE s)
             ELSE IF data.type.v = "send_exchange"
             THEN (IF typeof(data.key) = "string"
                   THEN handleExchange(s, ctx[ws], data.key.v)
                   ELSE s)
             ELSE terminate(s, ws)

\* ---------------------------------------------------------------- upgrade
\* a query parameter: searchParams.get returns null when it is absent
Absent == [present |-> FALSE, value |-> ""]
Param(v) == [present |-> TRUE, value |-> v]
Truthy(p) == p.present /\ p.value # ""

\* upgradeSocket with the bounds 20 and 50
upgradeSocket_oldBounds(usernameParam, roomParam, upgradable) ==
    LET username == IF Truthy(usernameParam) THEN usernameParam.value ELSE "Anonymous"
    IN  IF \/ Len(username) > 20
           \/ ~Truthy(roomParam)
           \/ Len(roomParam.value) > 50
        THEN [code |-> 400, username |-> username, room |-> ""]
        ELSE IF ~upgradable
        THEN [code |-> 500, username |-> username, room |-> roomParam.value]
        ELSE [code |-> 101, username |-> username, room |-> roomParam.value]

\* the response of upgradeSocket: 400, 500, or 101 when the upgrade is done
upgradeSocket(usernameParam, roomParam, upgradable) ==
    LET username == IF Truthy(usernameParam) THEN usernameParam.value ELSE "Anonymous"
    IN  IF \/ Len(username) > MaxUsernameLength
           \/ ~Truthy(roomParam)
           \/ Len(roomParam.value) > MaxRoomLength
        THEN [code |-> 400, username |-> username, room |-> ""]
        ELSE IF ~upgradable
        THEN [code |-> 500, username |-> username, room |-> roomParam.value]
        ELSE [code |-> 101, username |-> username, room |-> roomParam.value]

\* ------------------------------------------------------------------ state
NoCtx == [uuid |-> 0, username |-> "", room |-> ""]

\* The history of the frames sent to each connection, kept for the frame
\* types in `keep`: `inbox[r]` is what connection r has been sent since it
\* opened, in the order of the calls of send and publish, and `sent[c]` the
\* number of send_message frames of c handled.
HistoryOf(types) ==
    [keep |-> types,
     inbox |-> [c \in Conns |-> << >>],
     sent |-> [c \in Conns |-> 0]]

\* the frames of `frames` sent to connection r, in the order of the calls
RECURSIVE SentTo(_, _, _)
SentTo(frames, r, types) ==
    IF frames = << >> THEN << >>
    ELSE LET f == Head(frames)
         IN  (IF r \in f.to /\ f.frame.type \in types THEN <<f.frame>> ELSE << >>)
                 \o SentTo(Tail(frames), r, types)

\* Deliver with the newest frame put first
Deliver_newestFirst(h, frames, st) ==
    IF h.keep = {} THEN h
    ELSE [h EXCEPT !.inbox = [r \in Conns |->
            IF st[r] = "closed" THEN << >>
            ELSE SentTo(frames, r, h.keep) \o h.inbox[r]]]

\* a socket gets the frames sent to it in the order they were sent; what a
\* connection was sent is forgotten when its close has been handled
Deliver(h, frames, st) ==
    IF h.keep = {} THEN h
    ELSE [h EXCEPT !.inbox = [r \in Conns |->
            IF st[r] = "closed" THEN << >>
            ELSE h.inbox[r] \o SentTo(frames, r, h.keep)]]

Init ==
    /\ history = HistoryOf({})
    /\ sockets = {}
    /\ roomClientKeys = EmptyMap
    /\ subscribed = {}
    /\ status = [c \in Conns |-> "new"]
    /\ ctx = [c \in Conns |-> NoCtx]
    /\ out = << >>
    /\ last = [op |-> "init"]
    /\ firstSent = [c \in Conns |-> NoKey]

\* the state after construction, with the frames of the given types kept
InitKeeping(types) ==
    /\ history = HistoryOf(types)
    /\ sockets = {}
    /\ roomClientKeys = EmptyMap
    /\ subscribed = {}
    /\ status = [c \in Conns |-> "new"]
    /\ ctx = [c \in Conns |-> NoCtx]
    /\ out = << >>
    /\ last = [op |-> "init"]
    /\ firstSent = [c \in Conns |-> NoKey]

Commit(s) ==
    /\ sockets' = s.sockets
    /\ roomClientKeys' = s.roomClientKeys
    /\ subscribed' = s.subscribed
    /\ status' = s.status
    /\ out' = s.out

\* fetch on /socket: upgradeSocket; the new connection takes the next uuid
Upgrade(c, usernameParam, roomParam, upgradable) ==
    /\ status[c] = "new"
    /\ \A d \in Conns : d < c => status[d] # "new"
    /\ LET resp == upgradeSocket(usernameParam, roomParam, upgradable)
       IN  /\ last' = [op |-> "upgrade", username |-> usernameParam,
                       room |-> roomParam, code |-> resp.code,
                       conn |-> IF resp.code = 101 THEN c ELSE 0]
           /\ IF resp.code = 101
              THEN /\ ctx' = [ctx EXCEPT ![c] =
                        [uuid |-> c, username |-> resp.username, room |-> resp.room]]
                   /\ status' = [status EXCEPT ![c] = "upgraded"]
              ELSE UNCHANGED <<ctx, status>>
    /\ out' = << >>
    /\ UNCHANGED <<sockets, roomClientKeys, subscribed, firstSent, history>>

\* websocket.open: wrapInErrorHandler(handleOpen)
Open(c) ==
    /\ status[c] = "upgraded"
    /\ Commit(wrapInErrorHandler(
           handleOpen([Server EXCEPT !.status[c] = "open"], c)))
    /\ last' = [op |-> "open", conn |-> c]
    /\ history' = Deliver(history, out', status')
    /\ UNCHANGED <<ctx, firstSent>>

\* websocket.close: wrapInErrorHandler(handleClose); the transport reports the
\* close of a socket once, after the client left or after ws.terminate()
Close(c) ==
    /\ status[c] \in {"open", "terminated"}
    /\ Commit(wrapInErrorHandler(
           handleClose([Server EXCEPT !.status[c] = "closed"], c)))
    /\ last' = [op |-> "close", conn |-> c,
                hadKey |-> /\ ctx[c].room \in DOMAIN roomClientKeys
                           /\ c \in DOMAIN roomClientKeys[ctx[c].room],
                hadRoom |-> ctx[c].room \in DOMAIN roomClientKeys,
                terminated |-> status[c] = "terminated"]
    /\ firstSent' = [firstSent EXCEPT ![c] = NoKey]
    /\ history' = Deliver(history, out', status')
    /\ UNCHANGED ctx

IsExchange(received) ==
    /\ received.json
    /\ isMessageData(received.data)
    /\ received.data.v.type.v = "send_exchange"
    /\ typeof(received.data.v.key) = "string"

IsSendMessage(received) ==
    /\ received.json
    /\ isMessageData(received.data)
    /\ received.data.v.type.v = "send_message"
    /\ typeof(received.data.v.messages) = "object"
    /\ received.data.v.messages.t # "null"

\* websocket.message: wrapInErrorHandler(handleMessage)
Message(c, received) ==
    /\ status[c] = "open"
    /\ LET s == handleMessage(Server, c, received)
       IN  /\ Commit(wrapInErrorHandler(s))
           /\ last' = [op |-> "message", conn |-> c, frame |-> received,
                       threw |-> s.threw]
    /\ history' =
          [Deliver(history, out', status') EXCEPT !.sent[c] =
              IF "message" \in history.keep /\ IsSendMessage(received)
              THEN @ + 1 ELSE @]
    /\ UNCHANGED ctx

\* history: the first key an open connection has sent in a send_exchange
Track(c, received) ==
    firstSent' = IF status'[c] # "open"
                 THEN [firstSent EXCEPT ![c] = NoKey]
                 ELSE IF IsExchange(received) /\ firstSent[c] = NoKey
                 THEN [firstSent EXCEPT ![c] = received.data.v.key.v]
                 ELSE firstSent

\* ------------------------------------------------------------------ inputs
Frame(type, messages, key) ==
    [json |-> TRUE,
     data |-> Obj([type |-> type, messages |-> messages, key |-> key])]

SendExchange(key) == Frame(Str("send_exchange"), Undefined, Str(key))
SendMessage(entries) == Frame(Str("send_message"), Obj(entries), Undefined)
Entry(target, message) == [target |-> target, message |-> message]
MessageOf(content) == Obj([content |-> Str(content), iv |-> Str("iv")])

Keys == {"K1", "K2"}

\* a text that is no JSON, and a frame of a type the server does not take
BadFrames ==
    { [json |-> FALSE],
      Frame(Str("message"), Undefined, Undefined) }

Frames == BadFrames \cup {SendExchange(k) : k \in Keys}

\* a request without room is refused
RoomParams == {Absent, Param("abc"), Param("xyz")}

\* The two registries under joins, leaves, key exchanges and frames that
\* terminate the connection, two rooms.
Next ==
    \/ \E c \in Conns, r \in RoomParams : Upgrade(c, Absent, r, TRUE)
    \/ \E c \in Conns : Open(c)
    \/ \E c \in Conns : Close(c)
    \/ \E c \in Conns, f \in Frames : Message(c, f) /\ UNCHANGED firstSent

Spec == Init /\ [][Next]_vars

\* The same with the history of the keys sent, one room.
NextHistory ==
    \/ \E c \in Conns : Upgrade(c, Absent, Param("abc"), TRUE)
    \/ \E c \in Conns : Open(c)
    \/ \E c \in Conns : Close(c)
    \/ \E c \in Conns, f \in Frames : Message(c, f) /\ Track(c, f)

SpecHistory == Init /\ [][NextHistory]_vars

\* ------------------------------------------------------- the relay's inputs
\* contents by decoded length: 15, 16, 17, 272 and 273 bytes, and two texts
\* that are no base64
ContentBelowTag == B64(20, 0)
ContentTagOnly == B64(22, 2)
ContentOneByte == B64(23, 1)
ContentMaxBytes == B64(363, 1)
ContentTooLong == B64(364, 0)
ContentBadChar == B64Bad(24, 0)
ContentBadLength == B64(21, 0)

RelayContents ==
    {ContentBelowTag, ContentTagOnly, ContentOneByte, ContentMaxBytes,
     ContentTooLong, ContentBadChar, ContentBadLength}

\* an entry whose message is no {content, iv} object
RelayMessages == {MessageOf(x) : x \in RelayContents} \cup {Null}

\* in a frame of several entries each entry is deliverable or throws
SeveralMessages == {MessageOf(ContentOneByte), MessageOf(ContentBadChar)}

\* Object.entries of a `messages` object: one entry per target; the entries are
\* enumerated by ascending target
RECURSIVE EntriesOver(_, _)
EntriesOver(targets, messages) ==
    IF targets = {} THEN {<< >>}
    ELSE LET t == CHOOSE x \in targets : \A y \in targets : x <= y
         IN  {<<Entry(t, m)>> \o rest :
                 m \in messages, rest \in EntriesOver(targets \ {t}, messages)}

RelayFrames ==
    {SendMessage(<<Entry(t, m)>>) : t \in Conns, m \in RelayMessages}
    \cup {SendMessage(e) :
            e \in UNION {EntriesOver(T, SeveralMessages) :
                           T \in {X \in SUBSET Conns :
                                    Cardinality(X) \in 2..MaxEntries}}}

\* The relay of send_message frames, one room.
NextRelay ==
    \/ \E c \in Conns : Upgrade(c, Absent, Param("abc"), TRUE)
    \/ \E c \in Conns : Open(c)
    \/ \E c \in Conns : Close(c)
    \/ \E c \in Conns, f \in RelayFrames : Message(c, f) /\ UNCHANGED firstSent

SpecRelay == Init /\ [][NextRelay]_vars

\* frames of two entries, each deliverable or throwing
ContainFrames ==
    {SendMessage(e) :
        e \in UNION {EntriesOver(T, SeveralMessages) :
                       T \in {X \in SUBSET Conns : Cardinality(X) = 2}}}

NextContain ==
    \/ \E c \in Conns : Upgrade(c, Absent, Param("abc"), TRUE)
    \/ \E c \in Conns : Open(c)
    \/ \E c \in Conns : Close(c)
    \/ \E c \in Conns, f \in ContainFrames : Message(c, f) /\ UNCHANGED firstSent

SpecContain == Init /\ [][NextContain]_vars

\* ------------------------------------------------ frames against the protocol
\* frames that are no message data: a text that is no JSON, the JSON values
\* null, "send_exchange" and 1, and objects whose `type` is missing, null or 1
MalformedFrames ==
    { [json |-> FALSE],
      [json |-> TRUE, data |-> Null],
      [json |-> TRUE, data |-> Str("send_exchange")],
      [json |-> TRUE, data |-> Num(1)],
      Frame(Undefined, Undefined, Str("K1")),
      Frame(Null, Undefined, Str("K1")),
      Frame(Num(1), Undefined, Str("K1")) }

\* the types of the frames the server sends, and one nobody uses
OtherTypes == {"message", "exchange", "announcement", "keyinit", "ping"}

UnknownTypeFrames == {Frame(Str(t), Undefined, Str("K1")) : t \in OtherTypes}

\* send_message without `messages`, with null and with a string for it;
\* send_exchange without `key`, with null and with a number for it
MissingFieldFrames ==
    { Frame(Str("send_message"), Undefined, Undefined),
      Frame(Str("send_message"), Null, Undefined),
      Frame(Str("send_message"), Str("abc"), Undefined),
      Frame(Str("send_exchange"), Undefined, Undefined),
      Frame(Str("send_exchange"), Undefined, Null),
      Frame(Str("send_exchange"), Undefined, Num(1)) }

ProtocolFrames ==
    MalformedFrames \cup UnknownTypeFrames \cup MissingFieldFrames
        \cup {SendExchange("K1")}

\* Frames against the protocol, one room.
NextProtocol ==
    \/ \E c \in Conns : Upgrade(c, Absent, Param("abc"), TRUE)
    \/ \E c \in Conns : Open(c)
    \/ \E c \in Conns : Close(c)
    \/ \E c \in Conns, f \in ProtocolFrames : Message(c, f) /\ UNCHANGED firstSent

SpecProtocol == Init /\ [][NextProtocol]_vars

\* the transport reports the close of a terminated socket to the close handler
CloseTerminated(c) == status[c] = "terminated" /\ Close(c)

\* Frames that are no message data and key exchanges, one room; every
\* terminated socket gets its close handled.
NextMalformed ==
    \/ \E c \in Conns : Upgrade(c, Absent, Param("abc"), TRUE)
    \/ \E c \in Conns : Open(c)
    \/ \E c \in Conns : Close(c)
    \/ \E c \in Conns, f \in MalformedFrames \cup {SendExchange("K1")} :
          Message(c, f) /\ UNCHANGED firstSent

SpecMalformedLive ==
    /\ Init
    /\ [][NextMalformed]_vars
    /\ \A c \in Conns : WF_vars(CloseTerminated(c))

\* --------------------------------------------------- joins and recorded keys
KeyFrames == {[json |-> FALSE]} \cup {SendExchange(k) : k \in Keys}

\* Joins, leaves, terminations and key exchanges with two keys, two rooms.
NextKeys ==
    \/ \E c \in Conns, r \in {Param("abc"), Param("xyz")} :
          Upgrade(c, Absent, r, TRUE)
    \/ \E c \in Conns : Open(c)
    \/ \E c \in Conns : Close(c)
    \/ \E c \in Conns, f \in KeyFrames : Message(c, f) /\ UNCHANGED firstSent

SpecKeys == Init /\ [][NextKeys]_vars

\* the key a client sends first, and the key it sends once it has a key
\* recorded
OwnKey(c) == IF c % 2 = 1 THEN "K1" ELSE "K2"
OtherKey(c) == IF c % 2 = 1 THEN "K2" ELSE "K1"

\* Joins, leaves and key exchanges in one room, with every keyinit and
\* exchange frame sent kept: a client sends its own key at any time, and
\* another key while the server has a key recorded for it.
NextDissemination ==
    \/ \E c \in Conns : Upgrade(c, Absent, Param("abc"), TRUE)
    \/ \E c \in Conns : Open(c)
    \/ \E c \in Conns : Close(c)
    \/ \E c \in Conns :
          Message(c, SendExchange(OwnKey(c))) /\ UNCHANGED firstSent
    \/ \E c \in Conns :
          /\ \E r \in DOMAIN roomClientKeys : c \in DOMAIN roomClientKeys[r]
          /\ Message(c, SendExchange(OtherKey(c)))
          /\ UNCHANGED firstSent

SpecDissemination ==
    InitKeeping({"keyinit", "exchange"}) /\ [][NextDissemination]_vars

\* ------------------------------------------------------- joins and leaves
UsernameParams == {Absent, Param("Bob")}

LifecycleFrames == {SendExchange("K1")}

\* Joins and leaves under two display names, two rooms.
NextLifecycle ==
    \/ \E c \in Conns, u \in UsernameParams, r \in {Param("abc"), Param("xyz")} :
          Upgrade(c, u, r, TRUE)
    \/ \E c \in Conns : Open(c)
    \/ \E c \in Conns : Close(c)
    \/ \E c \in Conns, f \in LifecycleFrames : Message(c, f) /\ UNCHANGED firstSent

SpecLifecycle == Init /\ [][NextLifecycle]_vars

\* ------------------------------------------------- the relayed envelope
\* an entry that also carries a `sender` and a `uuid` of the client's choice
SpoofedMessage(content, iv, uuid) ==
    Obj([content |-> Str(content), iv |-> Str(iv),
         sender |-> Str("Eve"), uuid |-> Str(uuid)])

\* two deliverable messages that differ in content and iv, each claiming to
\* come from connection 1
EnvelopeFirst == SpoofedMessage(ContentOneByte, "iv1", 1)
EnvelopeSecond == SpoofedMessage(ContentMaxBytes, "iv2", 1)

\* one entry per target, by ascending target, the two messages in turn
EnvelopeEntries(targets) ==
    LET e == CHOOSE x \in EntriesOver(targets, {EnvelopeFirst}) : TRUE
    IN  [k \in 1..Len(e) |->
            Entry(e[k].target, IF k % 2 = 1 THEN EnvelopeFirst ELSE EnvelopeSecond)]

EnvelopeFrames ==
    {SendMessage(<<Entry(t, EnvelopeSecond)>>) : t \in Conns}
    \cup {SendMessage(EnvelopeEntries(T)) :
            T \in {X \in SUBSET Conns : Cardinality(X) \in 1..MaxEntries}}

\* The relay of deliverable entries under two display names, one room.
NextEnvelope ==
    \/ \E c \in Conns, u \in UsernameParams : Upgrade(c, u, Param("abc"), TRUE)
    \/ \E c \in Conns : Open(c)
    \/ \E c \in Conns : Close(c)
    \/ \E c \in Conns, f \in EnvelopeFrames : Message(c, f) /\ UNCHANGED firstSent

SpecEnvelope == Init /\ [][NextEnvelope]_vars

\* ------------------------------------------------------ upgrade requests
\* usernames of 16 and 17 characters, rooms of 32 and 33 characters
Username16 == "abcdefghijklmnop"
Username17 == "abcdefghijklmnopq"
Room32 == "abcdefghijklmnopqrstuvwxyz012345"
Room33 == "abcdefghijklmnopqrstuvwxyz0123456"

UpgradeUsernames == {Absent, Param(""), Param(Username16), Param(Username17)}
UpgradeRooms == {Absent, Param(""), Param(Room32), Param(Room33)}

\* Upgrade requests at the bounds of username and room, with upgrades that
\* succeed and upgrades that fail.
NextUpgrade ==
    \/ \E c \in Conns, u \in UpgradeUsernames, r \in UpgradeRooms, up \in BOOLEAN :
          Upgrade(c, u, r, up)
    \/ \E c \in Conns : Open(c)
    \/ \E c \in Conns : Close(c)
    \/ \E c \in Conns : Message(c, SendExchange("K1")) /\ UNCHANGED firstSent

SpecUpgrade == Init /\ [][NextUpgrade]_vars

\* ------------------------------------------------ traffic of every type
\* a key, and a deliverable message to each connection
TrafficFrames ==
    {SendExchange("K1")}
    \cup {SendMessage(<<Entry(t, MessageOf(ContentOneByte))>>) : t \in Conns}

\* Two rooms; joins, leaves, keys and messages to every connection, of the
\* sender's room or not, open or not.
NextTraffic ==
    \/ \E c \in Conns, r \in {"abc", "xyz"} : Upgrade(c, Absent, Param(r), TRUE)
    \/ \E c \in Conns : Open(c)
    \/ \E c \in Conns : Close(c)
    \/ \E c \in Conns, f \in TrafficFrames : Message(c, f) /\ UNCHANGED firstSent

SpecTraffic == Init /\ [][NextTraffic]_vars

\* ------------------------------------------- the effect of a send_message
\* an entry that is deliverable, one whose content is too long, one whose
\* content is no base64 and one whose message is no {content, iv} object
EffectMessages ==
    {MessageOf(ContentOneByte), MessageOf(ContentTooLong),
     MessageOf(ContentBadChar), Null}

EffectFrames ==
    {SendExchange("K1")}
    \cup {SendMessage(<<Entry(t, m)>>) : t \in Conns, m \in EffectMessages}

\* Two rooms, the connections joining them in turn; joins, leaves, keys and
\* send_message frames of every kind of entry to every connection, open or
\* not.
NextEffect ==
    \/ \E c \in Conns :
          Upgrade(c, Absent, Param(IF c % 2 = 1 THEN "abc" ELSE "xyz"), TRUE)
    \/ \E c \in Conns : Open(c)
    \/ \E c \in Conns : Close(c)
    \/ \E c \in Conns, f \in EffectFrames : Message(c, f) /\ UNCHANGED firstSent

SpecEffect == Init /\ [][NextEffect]_vars

\* -------------------------------------------------- the order of the relay
\* the n-th send_message frame of a connection carries the iv "n"; a frame has
\* one entry
NumberedMessage(n) ==
    Obj([content |-> Str(ContentOneByte), iv |-> Str(ToString(n))])

OrderFrames(n) ==
    {SendMessage(<<Entry(t, NumberedMessage(n))>>) : t \in Conns}

\* the number of send_message frames that connections 1..n have sent
RECURSIVE SentUpTo(_)
SentUpTo(n) == IF n = 0 THEN 0 ELSE history.sent[n] + SentUpTo(n - 1)

\* One room; the connections send MaxSent numbered frames between them, each
\* to any target, in any interleaving.
NextOrder ==
    \/ \E c \in Conns : Upgrade(c, Absent, Param("abc"), TRUE)
    \/ \E c \in Conns : Open(c)
    \/ \E c \in Conns : Close(c)
    \/ \E c \in Conns :
          /\ SentUpTo(MaxConns) < MaxSent
          /\ \E f \in OrderFrames(history.sent[c] + 1) : Message(c, f)
          /\ UNCHANGED firstSent

SpecOrder == InitKeeping({"message"}) /\ [][NextOrder]_vars

\* ------------------------------------------------------------- properties
HasKey(rck, room, c) == room \in DOMAIN rck /\ c \in DOMAIN rck[room]

\* the connection has joined and its close has not been handled yet
Joined(c) == status[c] \in {"open", "terminated"}

\* the open sockets subscribed to the topic of a room
Subscribers(room) ==
    {d \in subscribed : ctx[d].room = room /\ status[d] = "open"}

EntriesOf(received) == received.data.v.messages.v
KeyOf(received) == received.data.v.key.v

\* decoded byte length of the content of an entry minus the tag
PlainLength(e) == atob(e.message.v.content.v).length - TagLength
Decodes(e) == atob(e.message.v.content.v).ok

MessageFrame(sender, e) ==
    [type |-> "message", sender |-> ctx[sender].username, uuid |-> sender,
     content |-> e.message.v.content.v, iv |-> e.message.v.iv.v]

\* the last handler sent the message frame of entry e to its target
Delivered(e) ==
    \E i \in 1..Len(out) :
        /\ out[i].frame.type = "message"
        /\ out[i].to = {e.target}
        /\ out[i].frame.content = e.message.v.content.v

\* C1: a send_exchange of a connection whose key is already recorded changes
\* neither registry and sends no exchange frame.
C1_FirstKeyWins ==
    [][\A c \in Conns :
        (/\ last'.op = "message"
         /\ last'.conn = c
         /\ IsExchange(last'.frame)
         /\ HasKey(roomClientKeys, ctx[c].room, c))
        => /\ roomClientKeys' = roomClientKeys
           /\ sockets' = sockets
           /\ \A i \in 1..Len(out') : out'[i].frame.type # "exchange"]_vars

\* a second send_exchange with another key than the recorded one was handled
C1_Witness ==
    /\ last.op = "message"
    /\ IsExchange(last.frame)
    /\ HasKey(roomClientKeys, ctx[last.conn].room, last.conn)
    /\ roomClientKeys[ctx[last.conn].room][last.conn] # KeyOf(last.frame)
    /\ out = << >>

\* C2: a send_exchange with key K of an open connection without recorded key
\* records K for it and sends exchange{uuid, key} to every subscriber of its
\* room, itself included.
C2_ExchangeRecordedAndBroadcast ==
    [][\A c \in Conns :
        (/\ last'.op = "message"
         /\ last'.conn = c
         /\ IsExchange(last'.frame)
         /\ status[c] = "open"
         /\ ~HasKey(roomClientKeys, ctx[c].room, c))
        => /\ HasKey(roomClientKeys', ctx[c].room, c)
           /\ roomClientKeys'[ctx[c].room][c] = KeyOf(last'.frame)
           /\ c \in Subscribers(ctx[c].room)
           /\ \E i \in 1..Len(out') :
                 /\ out'[i].frame = [type |-> "exchange", uuid |-> c,
                                     key |-> KeyOf(last'.frame)]
                 /\ out'[i].to = Subscribers(ctx[c].room)]_vars

\* C3: the keyinit sent to a joining connection B holds A -> K for every open
\* connection A of the room that sent send_exchange with K before.
C3_KeyinitHasEarlierKeys ==
    \A a, b \in Conns :
        (/\ last.op = "open"
         /\ last.conn = b
         /\ a # b
         /\ ctx[a].room = ctx[b].room
         /\ status[a] = "open"
         /\ firstSent[a] # NoKey)
        => \E i \in 1..Len(out) :
              /\ out[i].frame.type = "keyinit"
              /\ b \in out[i].to
              /\ a \in DOMAIN out[i].frame.keys
              /\ out[i].frame.keys[a] = firstSent[a]

\* C4: every room with an open connection has an entry in roomClientKeys, and
\* an entry is removed only by the close of the last connection of the room.
C4_RoomLivesWhileOccupied ==
    [][/\ \A c \in Conns :
            status'[c] = "open" => ctx'[c].room \in DOMAIN roomClientKeys'
       /\ \A r \in DOMAIN roomClientKeys :
            r \notin DOMAIN roomClientKeys'
            => /\ last'.op = "close"
               /\ ctx[last'.conn].room = r
               /\ \A d \in Conns : ctx[d].room = r => status'[d] # "open"]_vars

C6_ClosedIsGone ==
    last.op = "close"
    => /\ last.conn \notin sockets
       /\ \A r \in DOMAIN roomClientKeys : last.conn \notin DOMAIN roomClientKeys[r]

\* a connection whose key was recorded has closed, and its room is still there
C6_Witness ==
    /\ last.op = "close"
    /\ last.hadKey
    /\ ctx[last.conn].room \in DOMAIN roomClientKeys

\* C7: an entry for a live target with L = decoded length - 16 is not delivered
\* when L = 0 or L > 256 and is delivered when L is in 1..256.
C7_LengthBounds ==
    (last.op = "message" /\ IsSendMessage(last.frame))
    => \A i \in 1..Len(EntriesOf(last.frame)) :
          LET e == EntriesOf(last.frame)[i]
          IN  (/\ isMessage(e.message)
               /\ e.target \in sockets
               /\ status[e.target] = "open"
               /\ Decodes(e))
              => /\ (PlainLength(e) = 0 \/ PlainLength(e) > MaxMessageLength)
                        => ~Delivered(e)
                 /\ PlainLength(e) \in 1..MaxMessageLength => Delivered(e)

\* C8: an entry whose content decodes to fewer than 16 bytes is never delivered.
C8_BelowTagNotDelivered ==
    (last.op = "message" /\ IsSendMessage(last.frame))
    => \A i \in 1..Len(EntriesOf(last.frame)) :
          LET e == EntriesOf(last.frame)[i]
          IN  (isMessage(e.message) /\ Decodes(e) /\ PlainLength(e) < 0)
              => ~Delivered(e)

\* C9: in a frame with an entry that is no base64, every other entry that is
\* valid and addressed to a live target is delivered, and the sender stays open.
C9_BadEntrySkipped ==
    (/\ last.op = "message"
     /\ IsSendMessage(last.frame)
     /\ \E j \in 1..Len(EntriesOf(last.frame)) :
           LET b == EntriesOf(last.frame)[j]
           IN  isMessage(b.message) /\ ~Decodes(b))
    => /\ status[last.conn] = "open"
       /\ \A i \in 1..Len(EntriesOf(last.frame)) :
             LET e == EntriesOf(last.frame)[i]
             IN  (/\ isMessage(e.message)
                  /\ Decodes(e)
                  /\ PlainLength(e) \in 1..MaxMessageLength
                  /\ e.target \in sockets
                  /\ status[e.target] = "open")
                 => Delivered(e)

\* C10: the entries of a send_message frame whose target is not in `sockets`
\* send nothing, change no registry and leave the sender open, and the other
\* entries are handled as if the frame held only them.
C10_DeadTargetSkipped ==
    [][(last'.op = "message" /\ IsSendMessage(last'.frame))
        => LET entries == EntriesOf(last'.frame)
               alive == SelectSeq(entries, LAMBDA e : e.target \in sockets)
               alone == handleUserMessage(Server, ctx[last'.conn], alive)
           IN  alive # entries
               => /\ sockets' = sockets
                  /\ roomClientKeys' = roomClientKeys
                  /\ status' = status
                  /\ \A i \in 1..Len(out') : \A j \in 1..Len(entries) :
                        entries[j].target \notin sockets
                        => entries[j].target \notin out'[i].to
                  /\ out' = alone.out
                  /\ last'.threw = alone.threw
                  /\ (\A j \in 1..Len(alive) :
                         /\ isMessage(alive[j].message)
                         /\ Decodes(alive[j])
                         /\ PlainLength(alive[j]) \in 1..MaxMessageLength
                         /\ status[alive[j].target] = "open")
                     => out' = [j \in 1..Len(alive) |->
                                   [to |-> {alive[j].target},
                                    frame |-> MessageFrame(last'.conn, alive[j])]]
      ]_vars

\* an entry for a target that is not registered came before an entry that was
\* delivered
C10_Witness ==
    /\ last.op = "message"
    /\ IsSendMessage(last.frame)
    /\ \E i, j \in 1..Len(EntriesOf(last.frame)) :
          /\ i < j
          /\ EntriesOf(last.frame)[i].target \notin sockets
          /\ isMessage(EntriesOf(last.frame)[i].message)
          /\ isMessage(EntriesOf(last.frame)[j].message)
          /\ Delivered(EntriesOf(last.frame)[j])

\* the frame is no JSON or no object with a string `type`
Malformed(received) == ~received.json \/ ~isMessageData(received.data)

LeftAnnouncement(c) ==
    [type |-> "announcement", content |-> ctx[c].username \o " has left the room!"]

\* C11: a frame of an open connection that is no JSON, or no object with a
\* string `type`, terminates the connection; no connection stays terminated
\* for ever, and a terminated connection leaves that state only by its close
\* handler, which removes it from both registries and sends
\* "<name> has left the room!" to every connection still subscribed to its room.
C11_MalformedTerminates ==
    /\ [][\A c \in Conns :
            (last'.op = "message" /\ last'.conn = c /\ Malformed(last'.frame))
            => status[c] = "open" /\ status'[c] = "terminated"]_vars
    /\ []<>(\A c \in Conns : status[c] # "terminated")
    /\ [][\A c \in Conns :
            (status[c] = "terminated" /\ status'[c] # "terminated")
            => /\ status'[c] = "closed"
               /\ last'.op = "close" /\ last'.conn = c
               /\ c \notin sockets'
               /\ ~HasKey(roomClientKeys', ctx[c].room, c)
               /\ out' = << [to |-> {d \in subscribed' :
                                       /\ ctx[d].room = ctx[c].room
                                       /\ status'[d] = "open"},
                              frame |-> LeftAnnouncement(c)] >>]_vars

\* a connection with a recorded key was terminated for a frame that is no
\* message data, its close was handled and another connection got the
\* announcement
C11_Witness ==
    /\ last.op = "close"
    /\ last.terminated
    /\ last.hadKey
    /\ status[last.conn] = "closed"
    /\ Len(out) = 1
    /\ out[1].to # {}
    /\ out[1].frame = LeftAnnouncement(last.conn)

\* a well-formed frame whose type is neither send_message nor send_exchange
UnknownType(received) ==
    /\ ~Malformed(received)
    /\ received.data.v.type.v \notin {"send_message", "send_exchange"}

\* C12: a well-formed frame of any type other than send_message and
\* send_exchange terminates its sender and changes neither registry.
C12_UnknownTypeTerminates ==
    [][\A c \in Conns :
        (last'.op = "message" /\ last'.conn = c /\ UnknownType(last'.frame))
        => /\ status[c] = "open"
           /\ status'[c] = "terminated"
           /\ sockets' = sockets
           /\ roomClientKeys' = roomClientKeys]_vars

\* a connection with a recorded key sent a frame of type keyinit and is
\* terminated, its close not handled yet
C12_Witness ==
    /\ last.op = "message"
    /\ UnknownType(last.frame)
    /\ last.frame.data.v.type.v = "keyinit"
    /\ status[last.conn] = "terminated"
    /\ HasKey(roomClientKeys, ctx[last.conn].room, last.conn)
    /\ last.conn \in sockets

\* a send_message frame without an object `messages`, or a send_exchange frame
\* without a string `key`
MissingField(received) ==
    /\ ~Malformed(received)
    /\ \/ /\ received.data.v.type.v = "send_message"
          /\ ~(typeof(received.data.v.messages) = "object"
                /\ received.data.v.messages.t # "null")
       \/ /\ received.data.v.type.v = "send_exchange"
          /\ typeof(received.data.v.key) # "string"

\* C13: a send_message frame without an object `messages` and a send_exchange
\* frame without a string `key` terminate their sender.
C13_MissingFieldTerminates ==
    [][\A c \in Conns :
        (last'.op = "message" /\ last'.conn = c /\ MissingField(last'.frame))
        => status'[c] = "terminated"]_vars

\* the key map recorded for a room, empty when the room has no entry
Recorded(room) ==
    IF room \in DOMAIN roomClientKeys THEN roomClientKeys[room] ELSE EmptyMap

\* C14: the keyinit sent to a joining connection J holds exactly the pairs
\* recorded for J's room when J opens: the recorded key of every open
\* connection of the room, nothing for J, for a connection whose close was
\* handled or for a connection of another room.
C14_KeyinitExact ==
    [][\A j \in Conns :
        (last'.op = "open" /\ last'.conn = j)
        => LET room == ctx[j].room
               inits == {i \in 1..Len(out') : out'[i].frame.type = "keyinit"}
           IN  /\ Cardinality(inits) = 1
               /\ \A i \in inits :
                     LET keys == out'[i].frame.keys
                     IN  /\ out'[i].to = {j}
                         /\ keys = Recorded(room)
                         /\ \A a \in Conns :
                               (/\ status[a] = "open"
                                /\ ctx[a].room = room
                                /\ HasKey(roomClientKeys, room, a))
                               => /\ a \in DOMAIN keys
                                  /\ keys[a] = roomClientKeys[room][a]
                         /\ j \notin DOMAIN keys
                         /\ \A a \in DOMAIN keys :
                               Joined(a) /\ ctx[a].room = room]_vars

\* a connection joined a room where one connection has closed and another has
\* its key K2 recorded, and got that key
C14_Witness ==
    /\ last.op = "open"
    /\ Len(out) = 2
    /\ out[2].frame.type = "keyinit"
    /\ \E a, b \in Conns :
          /\ a # last.conn /\ b # last.conn
          /\ ctx[a].room = ctx[last.conn].room
          /\ ctx[b].room = ctx[last.conn].room
          /\ status[b] = "closed"
          /\ a \in DOMAIN out[2].frame.keys
          /\ out[2].frame.keys[a] = "K2"

JoinedAnnouncement(c) ==
    [type |-> "announcement", content |-> ctx[c].username \o " has joined the room!"]

\* C15: on open of J "<name> has joined the room!" is sent to the subscribers
\* of J's room and to J, and after it the keyinit is sent to J.
C15_JoinAnnouncedThenKeyinit ==
    [][\A j \in Conns :
        (last'.op = "open" /\ last'.conn = j)
        => /\ Len(out') = 2
           /\ out'[1] = [to |-> Subscribers(ctx[j].room) \cup {j},
                         frame |-> JoinedAnnouncement(j)]
           /\ out'[2].to = {j}
           /\ out'[2].frame.type = "keyinit"]_vars

\* Bob joined a room with a member of another name while a connection of the
\* other room was open
C15_Witness ==
    /\ last.op = "open"
    /\ ctx[last.conn].username = "Bob"
    /\ out[1].frame.content = "Bob has joined the room!"
    /\ \E a, b \in Conns :
          /\ a # last.conn
          /\ a \in out[1].to
          /\ ctx[a].username = "Anonymous"
          /\ status[b] = "open"
          /\ ctx[b].room # ctx[last.conn].room
          /\ b \notin out[1].to

\* C16: handleOpen adds one entry to `sockets`, at most an empty key map for
\* the room, changes no recorded key and sends no exchange frame.
C16_OpenKeepsKeys ==
    [][\A j \in Conns :
        (last'.op = "open" /\ last'.conn = j)
        => /\ j \notin sockets
           /\ sockets' = sockets \cup {j}
           /\ roomClientKeys' =
                 IF ctx[j].room \in DOMAIN roomClientKeys THEN roomClientKeys
                 ELSE MapSet(roomClientKeys, ctx[j].room, EmptyMap)
           /\ \A r \in DOMAIN roomClientKeys :
                 r \in DOMAIN roomClientKeys' /\ roomClientKeys'[r] = roomClientKeys[r]
           /\ \A i \in 1..Len(out') : out'[i].frame.type # "exchange"]_vars

\* a connection joined a room with a recorded key while the other room had a
\* recorded key too
C16_Witness ==
    /\ last.op = "open"
    /\ \E a, b \in Conns :
          /\ HasKey(roomClientKeys, ctx[last.conn].room, a)
          /\ ctx[b].room # ctx[last.conn].room
          /\ HasKey(roomClientKeys, ctx[b].room, b)

\* C17: on close of C "<name> has left the room!" is sent to the connections
\* that remain subscribed to C's room and not to C, whether or not the room
\* has an entry and whether or not anyone remains.
C17_LeaveAnnounced ==
    [][\A c \in Conns :
        (last'.op = "close" /\ last'.conn = c)
        => /\ c \notin subscribed'
           /\ out' = << [to |-> Subscribers(ctx[c].room) \ {c},
                          frame |-> LeftAnnouncement(c)] >>]_vars

\* Bob left a room that had no entry, and a remaining member got the
\* announcement
C17_Witness ==
    /\ last.op = "close"
    /\ ~last.hadRoom
    /\ out[1].frame.content = "Bob has left the room!"
    /\ \E a \in out[1].to : ctx[a].username = "Anonymous"

\* C18: every message frame sent carries the display name and the uuid of the
\* connection whose send_message frame is handled, the content and iv of one
\* of its entries, and goes to the connection registered under the target of
\* that entry and to nobody else.
C18_EnvelopeFromContext ==
    \A i \in 1..Len(out) :
        out[i].frame.type = "message"
        => /\ last.op = "message"
           /\ IsSendMessage(last.frame)
           /\ \E j \in 1..Len(EntriesOf(last.frame)) :
                 LET e == EntriesOf(last.frame)[j]
                 IN  /\ out[i].frame = MessageFrame(last.conn, e)
                     /\ out[i].to = {e.target}
                     /\ e.target \in sockets

\* Bob sent two entries that claim another sender, and both were delivered,
\* one of them to another connection
C18_Witness ==
    /\ last.op = "message"
    /\ ctx[last.conn].username = "Bob"
    /\ last.conn # 1
    /\ Len(out) = 2
    /\ out[1].frame.type = "message"
    /\ out[2].frame.type = "message"
    /\ out[1].frame.iv # out[2].frame.iv
    /\ \E d \in out[1].to : d # last.conn

\* C19: an upgrade request gets 400 exactly when its username has more than
\* 16 characters or its room is absent, empty or has more than 32 characters;
\* an absent or empty username is "Anonymous"; a request that is not upgraded
\* creates no connection, and no request changes a registry.
C19_UpgradeRejection ==
    [][last'.op = "upgrade"
        => LET u == last'.username
               r == last'.room
               rejected == \/ u.present /\ Len(u.value) > MaxUsernameLength
                           \/ ~r.present
                           \/ r.value = ""
                           \/ Len(r.value) > MaxRoomLength
           IN  /\ last'.code = 400 <=> rejected
               /\ last'.code = 101
                     => /\ status[last'.conn] = "new"
                        /\ status'[last'.conn] = "upgraded"
                        /\ ctx'[last'.conn].room = r.value
                        /\ ctx'[last'.conn].username =
                              IF u.present /\ u.value # "" THEN u.value
                              ELSE "Anonymous"
               /\ last'.code # 101 => status' = status /\ ctx' = ctx
               /\ sockets' = sockets
               /\ roomClientKeys' = roomClientKeys
               /\ subscribed' = subscribed]_vars

\* with a connection of a 16 character username open in a room of 32
\* characters, whose key is recorded, a request with a username of 17
\* characters was refused
C19_Witness ==
    /\ last.op = "upgrade"
    /\ last.code = 400
    /\ last.username = Param(Username17)
    /\ last.room = Param(Room32)
    /\ \E c \in sockets :
          /\ ctx[c].username = Username16
          /\ ctx[c].room = Room32
          /\ HasKey(roomClientKeys, Room32, c)

\* C20: an identifier is in `sockets` if and only if the socket of its
\* connection is open, also between ws.terminate() and the close handler.
C20_RegisteredIffOpen ==
    \A c \in Conns : c \in sockets <=> status[c] = "open"

\* the rooms in whose key map the identifier occurs
RoomsOf(rck, c) == {r \in DOMAIN rck : c \in DOMAIN rck[r]}

\* C21: every identifier in a key map is in `sockets`, is in the key map of
\* one room only, and that room is the room of its connection.
C21_KeyMapsConsistent ==
    \A c \in Conns :
        RoomsOf(roomClientKeys, c) # {}
        => /\ c \in sockets
           /\ RoomsOf(roomClientKeys, c) = {ctx[c].room}

\* keys are recorded in two rooms, one of them for a connection that was
\* terminated and whose close is not handled yet
C21_Witness ==
    \E a, b \in Conns :
        /\ ctx[a].room # ctx[b].room
        /\ RoomsOf(roomClientKeys, a) # {}
        /\ RoomsOf(roomClientKeys, b) # {}
        /\ status[a] = "terminated"
        /\ status[b] = "open"

\* C22: from its join on, a connection is in `sockets` and in no key map as
\* long as it has not sent a send_exchange itself, whatever the others send.
C22_NoKeyBeforeOwnExchange ==
    [][\A c \in Conns :
        /\ status[c] \in {"new", "upgraded"} => RoomsOf(roomClientKeys, c) = {}
        /\ status'[c] = "open"
              => /\ c \in sockets'
                 /\ (RoomsOf(roomClientKeys', c) # {} /\ RoomsOf(roomClientKeys, c) = {})
                       => /\ last'.op = "message"
                          /\ last'.conn = c
                          /\ IsExchange(last'.frame)]_vars

\* a connection that joined first still has no key after another connection
\* of its room got its key recorded
C22_Witness ==
    /\ last.op = "message"
    /\ IsExchange(last.frame)
    /\ RoomsOf(roomClientKeys, last.conn) # {}
    /\ Len(out) = 1
    /\ \E c \in out[1].to :
          /\ c < last.conn
          /\ c \in sockets
          /\ RoomsOf(roomClientKeys, c) = {}

\* the registries agree with the connections: `sockets` holds the connections
\* that joined and whose close is not handled, the key maps only such
\* connections under their own room
RegistriesConsistent ==
    /\ \A c \in Conns : c \in sockets <=> Joined(c)
    /\ \A c \in Conns :
          RoomsOf(roomClientKeys, c) # {}
          => c \in sockets /\ RoomsOf(roomClientKeys, c) = {ctx[c].room}

\* a deliverable send_message of any open connection to any open connection
\* is relayed
Serviceable ==
    \A c, t \in Conns :
        (status[c] = "open" /\ status[t] = "open")
        => LET e == Entry(t, MessageOf(ContentOneByte))
               s == handleMessage(Server, c, SendMessage(<<e>>))
           IN  /\ ~s.threw
               /\ s.out = << [to |-> {t}, frame |-> MessageFrame(c, e)] >>

\* C23: an exception in the handler of one connection is caught at the
\* handler: no connection is closed, the sender included, the registries are
\* unchanged and consistent, and the frames of every open connection are
\* handled afterwards.
C23_ExceptionContained ==
    /\ [][(last'.op = "message" /\ last'.threw)
            => /\ status' = status
               /\ sockets' = sockets
               /\ roomClientKeys' = roomClientKeys
               /\ subscribed' = subscribed]_vars
    /\ []((last.op = "message" /\ last.threw)
            => /\ status[last.conn] = "open"
               /\ RegistriesConsistent
               /\ Serviceable)

\* atob failed on the second entry of a frame after the first was delivered,
\* with another connection open
C23_Witness ==
    /\ last.op = "message"
    /\ last.threw
    /\ Len(out) = 1
    /\ status[last.conn] = "open"
    /\ \E d \in Conns : d # last.conn /\ status[d] = "open"

\* the number of the send_message frame of its sender that caused a message
\* frame
FrameNumber(frame) == CHOOSE n \in 1..MaxSent : ToString(n) = frame.iv

C25_SecondCloseIdle ==
    \A c \in Conns :
        status[c] = "closed"
        => LET s == handleClose(Server, c)
           IN  /\ ~s.threw
               /\ s.sockets = sockets
               /\ s.roomClientKeys = roomClientKeys

\* C26: once handleClose has run for a connection, no handler sends a frame
\* of any type to it: it is no subscriber of a room and not registered, the
\* frames of every handler go to other connections, and a send_message of an
\* open connection that targets it sends nothing and raises no error.
C26_NothingToClosed ==
    \A c \in Conns :
        status[c] = "closed"
        => /\ c \notin subscribed
           /\ c \notin sockets
           /\ \A i \in 1..Len(out) : c \notin out[i].to
           /\ \A d \in Conns :
                 status[d] = "open"
                 => LET e == Entry(c, MessageOf(ContentOneByte))
                        s == handleMessage(Server, d, SendMessage(<<e>>))
                    IN  ~s.threw /\ s.out = << >>

\* an open connection has sent a deliverable message to a connection of its
\* room whose close has been handled
C26_Witness ==
    /\ last.op = "message"
    /\ IsSendMessage(last.frame)
    /\ ~last.threw
    /\ out = << >>
    /\ \E c \in Conns :
          /\ status[c] = "closed"
          /\ ctx[c].room = ctx[last.conn].room
          /\ last.frame.data.v.messages.v[1].target = c

\* C29: a message frame caused by a send_message of a connection is sent
\* only to connections whose room name is the sender's room name.
C29_RelayInRoom ==
    last.op = "message"
    => \A i \in 1..Len(out) :
          out[i].frame.type = "message"
          => \A d \in out[i].to : ctx[d].room = ctx[last.conn].room

\* C30: every announcement and every exchange frame that an open, a close
\* or a send_exchange of a connection causes is sent only to connections of
\* that connection's room name that are subscribed and open at that time.
C30_BroadcastInRoom ==
    last.op \in {"open", "close", "message"}
    => \A i \in 1..Len(out) :
          out[i].frame.type \in {"announcement", "exchange"}
          => \A d \in out[i].to :
                /\ ctx[d].room = ctx[last.conn].room
                /\ d \in subscribed
                /\ status[d] = "open"

\* a key was broadcast to the sender and another member of its room while a
\* connection of the other room was open
C30_Witness ==
    /\ last.op = "message"
    /\ Len(out) = 1
    /\ out[1].frame.type = "exchange"
    /\ \E a, b \in Conns :
          /\ a # last.conn
          /\ a \in out[1].to
          /\ last.conn \in out[1].to
          /\ status[b] = "open"
          /\ ctx[b].room # ctx[last.conn].room

\* the keys that a frame associates with the identifier a
KeysGiven(frame, a) ==
    IF frame.type = "keyinit"
    THEN IF a \in DOMAIN frame.keys THEN {frame.keys[a]} ELSE {}
    ELSE IF frame.type = "exchange" /\ frame.uuid = a THEN {frame.key}
    ELSE {}

\* the frames sent to r that associate a key with a
GivenAt(r, a) ==
    {i \in 1..Len(history.inbox[r]) : KeysGiven(history.inbox[r][i], a) # {}}

\* C27: for distinct open connections a and b of one room, when a's key is
\* recorded in the room's key map, exactly one frame sent to b carries a's
\* key: b's keyinit or an exchange frame, not both and not neither.
C27_KeySentOnce ==
    \A a, b \in Conns :
        ( /\ a # b
          /\ status[a] = "open"
          /\ status[b] = "open"
          /\ ctx[a].room = ctx[b].room
          /\ HasKey(roomClientKeys, ctx[a].room, a) )
        => /\ Cardinality(GivenAt(b, a)) = 1
           /\ \A i \in GivenAt(b, a) :
                 KeysGiven(history.inbox[b][i], a) = {roomClientKeys[ctx[a].room][a]}

\* b got the key of one member in its keyinit and the key of another member
\* in an exchange frame
C27_Witness ==
    \E a, b, c \in Conns :
        /\ a # b /\ b # c /\ a # c
        /\ status[a] = "open" /\ status[b] = "open" /\ status[c] = "open"
        /\ HasKey(roomClientKeys, ctx[b].room, a)
        /\ HasKey(roomClientKeys, ctx[b].room, c)
        /\ \E i \in GivenAt(b, a) : history.inbox[b][i].type = "keyinit"
        /\ \E i \in GivenAt(b, c) : history.inbox[b][i].type = "exchange"

\* C28: the keyinit and exchange frames sent to a connection, all together,
\* never associate two different keys with one identifier.
C28_NoKeyReplacementSeen ==
    \A r, a \in Conns :
        Cardinality(UNION {KeysGiven(history.inbox[r][i], a) :
                             i \in 1..Len(history.inbox[r])}) <= 1

\* a connection that was sent the key of a member has seen that member send
\* another key afterwards
C28_Witness ==
    /\ last.op = "message"
    /\ IsExchange(last.frame)
    /\ HasKey(roomClientKeys, ctx[last.conn].room, last.conn)
    /\ roomClientKeys[ctx[last.conn].room][last.conn] # last.frame.data.v.key.v
    /\ \E r \in Conns :
          /\ r # last.conn
          /\ status[r] = "open"
          /\ GivenAt(r, last.conn) # {}

\* C31: the handling of a send_message frame, whatever its entries (deliverable,
\* to a target that is gone, of a length out of bounds, malformed), leaves
\* `sockets` and the key map of every room as they were.
C31_SendMessageKeepsRegistries ==
    [][(last'.op = "message" /\ IsSendMessage(last'.frame))
        => /\ sockets' = sockets
           /\ roomClientKeys' = roomClientKeys]_vars

\* a send_message whose content is too long was handled for a registered
\* target while a key was recorded, and nothing was sent
C31_Witness ==
    /\ last.op = "message"
    /\ IsSendMessage(last.frame)
    /\ EntriesOf(last.frame)[1].message = MessageOf(ContentTooLong)
    /\ EntriesOf(last.frame)[1].target \in sockets
    /\ out = << >>
    /\ \E r \in DOMAIN roomClientKeys : DOMAIN roomClientKeys[r] # {}

\* C32: handleClose for a connection c leaves the recorded key of every other
\* open connection d in place and unchanged in the key map of d's room.
C32_CloseKeepsOthersKeys ==
    [][\A c, d \in Conns :
        ( /\ last'.op = "close"
          /\ last'.conn = c
          /\ d # c
          /\ status[d] = "open"
          /\ HasKey(roomClientKeys, ctx[d].room, d) )
        => /\ HasKey(roomClientKeys', ctx[d].room, d)
           /\ roomClientKeys'[ctx[d].room][d] = roomClientKeys[ctx[d].room][d]]_vars

\* a connection that had a key recorded has closed, and an open connection
\* of its room and one of the other room have their keys recorded
C32_Witness ==
    /\ last.op = "close"
    /\ last.hadKey
    /\ \E d, e \in Conns :
          /\ status[d] = "open"
          /\ status[e] = "open"
          /\ ctx[d].room = ctx[last.conn].room
          /\ ctx[e].room # ctx[last.conn].room
          /\ HasKey(roomClientKeys, ctx[d].room, d)
          /\ HasKey(roomClientKeys, ctx[e].room, e)

====
